---- MODULE Spec2Model ----
(***************************************************************************)
(* finiate: the agenda table, the log table, the two SQLite repositories   *)
(* (storage/src/repo) and the command dispatcher of the CLI (cli/src).     *)
(*                                                                         *)
(* A Timestamp is a number of clock ticks; SubMs ticks make a millisecond, *)
(* so as_millisecond loses the sub-millisecond part.  A Uuid is the serial *)
(* number of its generation by Uuid::now_v7.                               *)
(***************************************************************************)
EXTENDS Integers, FiniteSets, Sequences, TLC

VARIABLES agenda, log, now, uuid, last

vars == <<agenda, log, now, uuid, last>>

\* ---------------------------------------------------------------- bounds
MaxUuid == 2
MaxSlot == 2

SubMs == 2

Titles == {"a", "b"}
UpdateTitles == {"b"}
Contents == {"", "note"}
TerminateAtArgs == {"2030-01-01T00:00:00Z", "1970-01-01T00:00:00Z", "someday"}
Timestamps == {1, 4}
UpdateTimestamps == {5}

QueryTitles == {"a", "b", "c"}
StatusArgs == {"stored", "ongoing", "terminated", "active"}
RangeTimestamps == {0, 1, 4}

Uuids == 1..MaxUuid
Slots == 1..MaxSlot

\* The log repository is followed for one id more than the agenda repository.
MaxLogUuid == MaxUuid + 1
LogUuids == 1..MaxLogUuid

\* ---------------------------------------------------------------- domain
AgendaStatus == {"Stored", "Ongoing", "Terminated"}

LogType == {"Activate", "PutOff", "Terminate", "CommonLog"}

AgendaStatus_to_string(s) ==
  CASE s = "Stored" -> "stored"
    [] s = "Ongoing" -> "ongoing"
    [] s = "Terminated" -> "terminated"

LogType_to_string(t) ==
  CASE t = "Activate" -> "activate"
    [] t = "PutOff" -> "put_off"
    [] t = "Terminate" -> "terminate"
    [] t = "CommonLog" -> "common_log"

None == [some |-> FALSE]

Some(v) == [some |-> TRUE, val |-> v]

Option(S) == {None} \cup {Some(v) : v \in S}

AgendaCreate == [title : Titles, agenda_status : AgendaStatus, terminate_at : Timestamps]

AgendaUpdate ==
  [ title : Option(UpdateTitles),
    agenda_status : Option(AgendaStatus),
    terminate_at : Option(UpdateTimestamps) ]

LogSamples ==
  { <<"", "Activate">>, <<"note", "PutOff">>, <<"", "Terminate">>, <<"note", "CommonLog">> }

LogCreate ==
  { [agenda_id |-> i, content |-> c[1], log_type |-> c[2]] : i \in Uuids, c \in LogSamples }

NoteCreate == { l \in LogCreate : l.log_type = "CommonLog" }

\* ------------------------------------------------------------ conversions
as_millisecond(t) == t \div SubMs

from_millisecond(ms) == ms * SubMs

uuid_to_string(u) == [hyphenated |-> u]

parse_str(s) == s.hyphenated

\* A value bound as TEXT to a column of INTEGER affinity is stored as the
\* integer it spells; an integer is stored as it is.
i64_to_string(n) == [ty |-> "text", digits |-> n]

bind_i64(n) == [ty |-> "integer", v |-> n]

IntegerAffinity(b) == IF b.ty = "integer" THEN b.v ELSE b.digits

Ok(v) == [ok |-> TRUE, val |-> v]

Err(e) == [ok |-> FALSE, err |-> e]

\* ---------------------------------------------------------------- schema
\* log.agenda_id is a foreign key into agenda.id.
ForeignKeyOk(agendaTable, agenda_id_text) ==
  \E r \in agendaTable : r.id = agenda_id_text

\* Deleting an agenda row does not cascade to the log table.
OnDeleteAgenda(logTable, id_text) == logTable

\* ------------------------------------------------------ agenda repository
\* A last arm "_ => AgendaStatus::Stored" in place of the panic.
DbAgendaToAgenda_default(r) ==
  [ id |-> parse_str(r.id),
    title |-> r.title,
    agenda_status |-> CASE r.agenda_status = "stored" -> "Stored"
                        [] r.agenda_status = "ongoing" -> "Ongoing"
                        [] r.agenda_status = "terminated" -> "Terminated"
                        [] OTHER -> "Stored",
    initiate_at |-> from_millisecond(r.initiate_at),
    terminate_at |-> from_millisecond(r.terminate_at) ]

DbAgendaToAgenda(r) ==
  IF r.agenda_status = "stored" \/ r.agenda_status = "ongoing" \/ r.agenda_status = "terminated"
  THEN [ id |-> parse_str(r.id),
         title |-> r.title,
         agenda_status |-> CASE r.agenda_status = "stored" -> "Stored"
                             [] r.agenda_status = "ongoing" -> "Ongoing"
                             [] r.agenda_status = "terminated" -> "Terminated",
         initiate_at |-> from_millisecond(r.initiate_at),
         terminate_at |-> from_millisecond(r.terminate_at) ]
  ELSE [panic |-> "invalid agenda_status in database"]

\* The two timestamps bound in each other's place.
InsertAgenda_swapped(table, u, a, timestamp) ==
  table \cup { [ id |-> uuid_to_string(u),
                 title |-> a.title,
                 agenda_status |-> AgendaStatus_to_string(a.agenda_status),
                 initiate_at |-> IntegerAffinity(bind_i64(as_millisecond(a.terminate_at))),
                 terminate_at |-> IntegerAffinity(bind_i64(timestamp)) ] }

\* terminate_at bound as whole seconds (as_second) in a column of
\* milliseconds.
InsertAgenda_seconds(table, u, a, timestamp) ==
  table \cup { [ id |-> uuid_to_string(u),
                 title |-> a.title,
                 agenda_status |-> AgendaStatus_to_string(a.agenda_status),
                 initiate_at |-> IntegerAffinity(bind_i64(timestamp)),
                 terminate_at |->
                   IntegerAffinity(bind_i64(as_millisecond(a.terminate_at) \div 1000)) ] }

\* The status of a new agenda bound as Ongoing whatever the caller gives.
InsertAgenda_ongoing(table, u, a, timestamp) ==
  table \cup { [ id |-> uuid_to_string(u),
                 title |-> a.title,
                 agenda_status |-> AgendaStatus_to_string("Ongoing"),
                 initiate_at |-> IntegerAffinity(bind_i64(timestamp)),
                 terminate_at |-> IntegerAffinity(bind_i64(as_millisecond(a.terminate_at))) ] }

InsertAgenda(table, u, a, timestamp) ==
  table \cup { [ id |-> uuid_to_string(u),
                 title |-> a.title,
                 agenda_status |-> AgendaStatus_to_string(a.agenda_status),
                 initiate_at |-> IntegerAffinity(bind_i64(timestamp)),
                 terminate_at |-> IntegerAffinity(bind_i64(as_millisecond(a.terminate_at))) ] }

\* DELETE FROM agenda without its WHERE clause.
DeleteAgenda_nowhere(table, id) == {}

DeleteAgenda(table, id) == { r \in table : r.id # uuid_to_string(id) }

\* Every column is written, a None field as the empty value.
UpdateRow_clobber(r, update) ==
  [ r EXCEPT
      !.title = IF update.title.some THEN update.title.val ELSE "",
      !.agenda_status =
         IF update.agenda_status.some THEN AgendaStatus_to_string(update.agenda_status.val) ELSE @,
      !.terminate_at =
         IF update.terminate_at.some
         THEN IntegerAffinity(i64_to_string(as_millisecond(update.terminate_at.val)))
         ELSE @ ]

\* The new terminate_at is written to the initiate_at column as well.
UpdateRow_initiate(r, update) ==
  [ r EXCEPT
      !.title = IF update.title.some THEN update.title.val ELSE @,
      !.agenda_status =
         IF update.agenda_status.some THEN AgendaStatus_to_string(update.agenda_status.val) ELSE @,
      !.initiate_at =
         IF update.terminate_at.some
         THEN IntegerAffinity(i64_to_string(as_millisecond(update.terminate_at.val)))
         ELSE @,
      !.terminate_at =
         IF update.terminate_at.some
         THEN IntegerAffinity(i64_to_string(as_millisecond(update.terminate_at.val)))
         ELSE @ ]

\* agenda_status is always in the SET list, bound to the default status when
\* the update gives none.
UpdateRow_status_default(r, update) ==
  [ r EXCEPT
      !.title = IF update.title.some THEN update.title.val ELSE @,
      !.agenda_status =
         IF update.agenda_status.some
         THEN AgendaStatus_to_string(update.agenda_status.val)
         ELSE AgendaStatus_to_string("Stored"),
      !.terminate_at =
         IF update.terminate_at.some
         THEN IntegerAffinity(i64_to_string(as_millisecond(update.terminate_at.val)))
         ELSE @ ]

UpdateRow(r, update) ==
  [ r EXCEPT
      !.title = IF update.title.some THEN update.title.val ELSE @,
      !.agenda_status =
         IF update.agenda_status.some THEN AgendaStatus_to_string(update.agenda_status.val) ELSE @,
      !.terminate_at =
         IF update.terminate_at.some
         THEN IntegerAffinity(i64_to_string(as_millisecond(update.terminate_at.val)))
         ELSE @ ]

UpdateArgsEmpty(update) ==
  ~update.title.some /\ ~update.agenda_status.some /\ ~update.terminate_at.some

\* UPDATE agenda SET ... without its WHERE clause.
UpdateAgendaTable_nowhere(table, id, update) ==
  IF UpdateArgsEmpty(update)
  THEN table
  ELSE { UpdateRow(r, update) : r \in table }

UpdateAgendaTable(table, id, update) ==
  IF UpdateArgsEmpty(update)
  THEN table
  ELSE { IF r.id = uuid_to_string(id) THEN UpdateRow(r, update) ELSE r : r \in table }

\* fetch_one in place of fetch_optional: no row is an error.
SelectAgendaById_fetch_one(table, id) ==
  LET rows == { r \in table : r.id = uuid_to_string(id) }
  IN  IF rows = {}
      THEN Err("RowNotFound")
      ELSE LET a == DbAgendaToAgenda(CHOOSE r \in rows : TRUE)
           IN  IF a = [panic |-> "invalid agenda_status in database"] THEN a ELSE Ok(Some(a))

\* row.map(..): a row that cannot be mapped panics the call.
SelectAgendaById(table, id) ==
  LET rows == { r \in table : r.id = uuid_to_string(id) }
  IN  IF rows = {}
      THEN Ok(None)
      ELSE LET a == DbAgendaToAgenda(CHOOSE r \in rows : TRUE)
           IN  IF a = [panic |-> "invalid agenda_status in database"] THEN a ELSE Ok(Some(a))

RowsWithId(table, id) == Cardinality({ r \in table : r.id = uuid_to_string(id) })

\* The id taken from the number of rows in the table, not from Uuid::now_v7.
create_agenda_by_count(a) ==
  /\ uuid < MaxUuid
  /\ \E t \in {now, now + 1} :
       /\ agenda' = InsertAgenda(agenda, Cardinality(agenda) + 1, a, as_millisecond(t))
       /\ now' = t
  /\ uuid' = uuid + 1
  /\ last' = [op |-> "create_agenda", arg |-> [agenda |-> a, start |-> now], rows |-> 1,
              ret |-> Ok(Cardinality(agenda) + 1)]
  /\ UNCHANGED log

create_agenda(a) ==
  /\ uuid < MaxUuid
  /\ \E t \in {now, now + 1} :
       /\ agenda' = InsertAgenda(agenda, uuid + 1, a, as_millisecond(t))
       /\ now' = t
  /\ uuid' = uuid + 1
  /\ last' = [op |-> "create_agenda", arg |-> [agenda |-> a, start |-> now], rows |-> 1,
              ret |-> Ok(uuid + 1)]
  /\ UNCHANGED log

\* The logs of the agenda are deleted along with it.
delete_agenda_by_id_cascade(id) ==
  /\ agenda' = DeleteAgenda(agenda, id)
  /\ log' = { l \in OnDeleteAgenda(log, uuid_to_string(id)) : l.agenda_id # uuid_to_string(id) }
  /\ last' = [op |-> "delete_agenda_by_id", arg |-> [id |-> id],
              rows |-> RowsWithId(agenda, id), ret |-> Ok(<<>>)]
  /\ UNCHANGED <<now, uuid>>

delete_agenda_by_id(id) ==
  /\ agenda' = DeleteAgenda(agenda, id)
  /\ log' = OnDeleteAgenda(log, uuid_to_string(id))
  /\ last' = [op |-> "delete_agenda_by_id", arg |-> [id |-> id],
              rows |-> RowsWithId(agenda, id), ret |-> Ok(<<>>)]
  /\ UNCHANGED <<now, uuid>>

\* Without the early return the statement "UPDATE agenda SE WHERE id = ?" is
\* sent and rejected.
update_agenda_no_early_return(id, update) ==
  /\ agenda' = UpdateAgendaTable(agenda, id, update)
  /\ last' = [op |-> "update_agenda", arg |-> [id |-> id, update |-> update],
              rows |-> IF UpdateArgsEmpty(update) THEN 0 ELSE RowsWithId(agenda, id),
              ret |-> IF UpdateArgsEmpty(update) THEN Err("syntax error") ELSE Ok(<<>>)]
  /\ UNCHANGED <<log, now, uuid>>

update_agenda(id, update) ==
  /\ agenda' = UpdateAgendaTable(agenda, id, update)
  /\ last' = [op |-> "update_agenda", arg |-> [id |-> id, update |-> update],
              rows |-> IF UpdateArgsEmpty(update) THEN 0 ELSE RowsWithId(agenda, id),
              ret |-> Ok(<<>>)]
  /\ UNCHANGED <<log, now, uuid>>

get_agenda_by_id(id) ==
  /\ last' = [op |-> "get_agenda_by_id", arg |-> [id |-> id], rows |-> 0,
              ret |-> SelectAgendaById(agenda, id)]
  /\ UNCHANGED <<agenda, log, now, uuid>>

\* The rows of a SELECT as the Vec that fetch_all collects: each row once, in
\* the order of the table scan, which is the order of the ids.
RECURSIVE fetch_all(_)
fetch_all(rows) ==
  IF rows = {}
  THEN <<>>
  ELSE LET r == CHOOSE r \in rows : \A q \in rows : parse_str(r.id) <= parse_str(q.id)
       IN  <<r>> \o fetch_all(rows \ {r})

\* rows.into_iter().map(..).collect(): a row that cannot be mapped panics
\* the call.
CollectAgendas(rows) ==
  IF \E r \in rows : DbAgendaToAgenda(r) = [panic |-> "invalid agenda_status in database"]
  THEN [panic |-> "invalid agenda_status in database"]
  ELSE LET s == fetch_all(rows)
       IN  Ok([i \in 1..Len(s) |-> DbAgendaToAgenda(s[i])])

\* fetch_optional in place of fetch_all: at most the first matching row.
SelectAgendasByTitle_first(table, title) ==
  LET rows == { r \in table : r.title = title }
  IN  IF rows = {} THEN Ok(<<>>) ELSE Ok(<< DbAgendaToAgenda(fetch_all(rows)[1]) >>)

SelectAgendasByTitle(table, title) ==
  CollectAgendas({ r \in table : r.title = title })

\* The filtered statement without its WHERE clause.
SelectAgendasByStatus_nowhere(table, status) == CollectAgendas(table)

SelectAgendasByStatus(table, status) ==
  IF status.some
  THEN CollectAgendas({ r \in table : r.agenda_status = status.val })
  ELSE CollectAgendas(table)

\* The filter is dropped from the COUNT statement.
CountAgendasByStatus_nowhere(table, status) == Ok(Cardinality(table))

\* COUNT(DISTINCT title) in place of COUNT(*).
CountAgendasByStatus_distinct(table, status) ==
  IF status.some
  THEN Ok(Cardinality({ r.title : r \in { q \in table : q.agenda_status = status.val } }))
  ELSE Ok(Cardinality({ r.title : r \in table }))

CountAgendasByStatus(table, status) ==
  IF status.some
  THEN Ok(Cardinality({ r \in table : r.agenda_status = status.val }))
  ELSE Ok(Cardinality(table))

\* The upper bound compared with < in place of <=.
SelectAgendasByTerminateTimeRange_exclusive(table, start, end) ==
  CollectAgendas({ r \in table :
                     /\ r.terminate_at >= IntegerAffinity(bind_i64(as_millisecond(start)))
                     /\ r.terminate_at < IntegerAffinity(bind_i64(as_millisecond(end))) })

SelectAgendasByTerminateTimeRange(table, start, end) ==
  CollectAgendas({ r \in table :
                     /\ r.terminate_at >= IntegerAffinity(bind_i64(as_millisecond(start)))
                     /\ r.terminate_at <= IntegerAffinity(bind_i64(as_millisecond(end))) })

get_agendas_by_title(title) ==
  /\ last' = [op |-> "get_agendas_by_title", arg |-> [title |-> title], rows |-> 0,
              ret |-> SelectAgendasByTitle(agenda, title)]
  /\ UNCHANGED <<agenda, log, now, uuid>>

get_agendas_by_status(status) ==
  /\ last' = [op |-> "get_agendas_by_status", arg |-> [status |-> status], rows |-> 0,
              ret |-> SelectAgendasByStatus(agenda, status)]
  /\ UNCHANGED <<agenda, log, now, uuid>>

count_agendas_by_status(status) ==
  /\ last' = [op |-> "count_agendas_by_status", arg |-> [status |-> status], rows |-> 0,
              ret |-> CountAgendasByStatus(agenda, status)]
  /\ UNCHANGED <<agenda, log, now, uuid>>

get_agendas_by_terminate_time_range(start, end) ==
  /\ last' = [op |-> "get_agendas_by_terminate_time_range",
              arg |-> [start |-> start, end |-> end], rows |-> 0,
              ret |-> SelectAgendasByTerminateTimeRange(agenda, start, end)]
  /\ UNCHANGED <<agenda, log, now, uuid>>

\* --------------------------------------------------------- log repository
\* agenda_id bound in the place of id: the row carries the id of its agenda.
InsertLog_misbound(table, u, new_log, timestamp) ==
  table \cup { [ id |-> uuid_to_string(new_log.agenda_id),
                 create_at |-> IntegerAffinity(bind_i64(timestamp)),
                 content |-> new_log.content,
                 log_type |-> LogType_to_string(new_log.log_type),
                 agenda_id |-> uuid_to_string(new_log.agenda_id) ] }

\* INSERT OR REPLACE under a key of agenda_id and log_type: the new row takes
\* the place of the earlier log of that type.
InsertLog_replace(table, u, new_log, timestamp) ==
  { r \in table : ~( /\ r.agenda_id = uuid_to_string(new_log.agenda_id)
                     /\ r.log_type = LogType_to_string(new_log.log_type) ) }
    \cup { [ id |-> uuid_to_string(u),
             create_at |-> IntegerAffinity(bind_i64(timestamp)),
             content |-> new_log.content,
             log_type |-> LogType_to_string(new_log.log_type),
             agenda_id |-> uuid_to_string(new_log.agenda_id) ] }

InsertLog(table, u, new_log, timestamp) ==
  table \cup { [ id |-> uuid_to_string(u),
                 create_at |-> IntegerAffinity(bind_i64(timestamp)),
                 content |-> new_log.content,
                 log_type |-> LogType_to_string(new_log.log_type),
                 agenda_id |-> uuid_to_string(new_log.agenda_id) ] }

\* The statement filters on the agenda_id column in place of id.
DeleteLog_by_agenda_id(table, id) == { r \in table : r.agenda_id # uuid_to_string(id) }

DeleteLog(table, id) == { r \in table : r.id # uuid_to_string(id) }

\* The error of execute is dropped and the fresh id returned all the same.
create_log_swallowed(new_log) ==
  /\ uuid < MaxLogUuid
  /\ uuid' = uuid + 1
  /\ \E t \in {now, now + 1} :
       /\ now' = t
       /\ IF ForeignKeyOk(agenda, uuid_to_string(new_log.agenda_id))
          THEN /\ log' = InsertLog(log, uuid + 1, new_log, as_millisecond(t))
               /\ last' = [op |-> "create_log", arg |-> [new_log |-> new_log, start |-> now],
                           rows |-> 1, ret |-> Ok(uuid + 1)]
          ELSE /\ log' = log
               /\ last' = [op |-> "create_log", arg |-> [new_log |-> new_log, start |-> now],
                           rows |-> 0, ret |-> Ok(uuid + 1)]
  /\ UNCHANGED agenda

create_log(new_log) ==
  /\ uuid < MaxLogUuid
  /\ uuid' = uuid + 1
  /\ \E t \in {now, now + 1} :
       /\ now' = t
       /\ IF ForeignKeyOk(agenda, uuid_to_string(new_log.agenda_id))
          THEN /\ log' = InsertLog(log, uuid + 1, new_log, as_millisecond(t))
               /\ last' = [op |-> "create_log", arg |-> [new_log |-> new_log, start |-> now],
                           rows |-> 1, ret |-> Ok(uuid + 1)]
          ELSE /\ log' = log
               /\ last' = [op |-> "create_log", arg |-> [new_log |-> new_log, start |-> now],
                           rows |-> 0, ret |-> Err("FOREIGN KEY constraint failed")]
  /\ UNCHANGED agenda

delete_log(id) ==
  /\ log' = DeleteLog(log, id)
  /\ last' = [op |-> "delete_log", arg |-> [id |-> id],
              rows |-> Cardinality({ r \in log : r.id = uuid_to_string(id) }), ret |-> Ok(<<>>)]
  /\ UNCHANGED <<agenda, now, uuid>>

DbLogToLog(r) ==
  IF r.log_type \in {"activate", "put_off", "terminate", "common_log"}
  THEN [ id |-> parse_str(r.id),
         agenda_id |-> parse_str(r.agenda_id),
         content |-> r.content,
         create_at |-> from_millisecond(r.create_at),
         log_type |-> CASE r.log_type = "activate" -> "Activate"
                        [] r.log_type = "put_off" -> "PutOff"
                        [] r.log_type = "terminate" -> "Terminate"
                        [] r.log_type = "common_log" -> "CommonLog" ]
  ELSE [panic |-> "invalid log type in DB"]

CollectLogs(rows) ==
  IF \E r \in rows : DbLogToLog(r) = [panic |-> "invalid log type in DB"]
  THEN [panic |-> "invalid log type in DB"]
  ELSE LET s == fetch_all(rows)
       IN  Ok([i \in 1..Len(s) |-> DbLogToLog(s[i])])

\* The statement filters on the id column in place of agenda_id.
SelectLogsByAgendaId_by_id(table, agenda_id) ==
  CollectLogs({ r \in table : r.id = uuid_to_string(agenda_id) })

SelectLogsByAgendaId(table, agenda_id) ==
  CollectLogs({ r \in table : r.agenda_id = uuid_to_string(agenda_id) })

\* The lower bound compared with > in place of >=.
SelectLogsByTimeRange_exclusive(table, start, end) ==
  CollectLogs({ r \in table :
                  /\ r.create_at > IntegerAffinity(bind_i64(as_millisecond(start)))
                  /\ r.create_at <= IntegerAffinity(bind_i64(as_millisecond(end))) })

SelectLogsByTimeRange(table, start, end) ==
  CollectLogs({ r \in table :
                  /\ r.create_at >= IntegerAffinity(bind_i64(as_millisecond(start)))
                  /\ r.create_at <= IntegerAffinity(bind_i64(as_millisecond(end))) })

\* DELETE FROM log WHERE agenda_id = ? RETURNING the columns, in place of the
\* SELECT.
get_logs_by_agenda_id_returning(agenda_id) ==
  /\ last' = [op |-> "get_logs_by_agenda_id", arg |-> [agenda_id |-> agenda_id], rows |-> 0,
              ret |-> SelectLogsByAgendaId(log, agenda_id)]
  /\ log' = { l \in log : l.agenda_id # uuid_to_string(agenda_id) }
  /\ UNCHANGED <<agenda, now, uuid>>

get_logs_by_agenda_id(agenda_id) ==
  /\ last' = [op |-> "get_logs_by_agenda_id", arg |-> [agenda_id |-> agenda_id], rows |-> 0,
              ret |-> SelectLogsByAgendaId(log, agenda_id)]
  /\ UNCHANGED <<agenda, log, now, uuid>>

get_logs_by_time_range(start, end) ==
  /\ last' = [op |-> "get_logs_by_time_range", arg |-> [start |-> start, end |-> end],
              rows |-> 0, ret |-> SelectLogsByTimeRange(log, start, end)]
  /\ UNCHANGED <<agenda, log, now, uuid>>

\* ------------------------------------------------- rows written by raw SQL
\* The tests of the log repository write agenda rows and log rows with
\* statements of their own, next to the repository: an agenda row of status
\* "active", and log rows of a log_type bound as a string.
RawLogTypes == {"put_off", "memo"}

insert_agenda(agenda_id) ==
  /\ uuid < MaxUuid
  /\ agenda_id = uuid + 1
  /\ \E t \in {now, now + 1} :
       /\ agenda' = agenda \cup { [ id |-> uuid_to_string(agenda_id),
                                     title |-> "Test agenda",
                                     agenda_status |-> "active",
                                     initiate_at |-> IntegerAffinity(bind_i64(as_millisecond(t))),
                                     terminate_at |->
                                       IntegerAffinity(bind_i64(as_millisecond(t) + 1000)) ] }
       /\ now' = t
  /\ uuid' = uuid + 1
  /\ last' = [op |-> "insert_agenda", arg |-> [agenda_id |-> agenda_id], rows |-> 1,
              ret |-> Ok(<<>>)]
  /\ UNCHANGED log

insert_log(log_type, agenda_id) ==
  /\ uuid < MaxLogUuid
  /\ ForeignKeyOk(agenda, uuid_to_string(agenda_id))
  /\ log' = log \cup { [ id |-> uuid_to_string(uuid + 1),
                         create_at |-> IntegerAffinity(bind_i64(as_millisecond(now))),
                         content |-> "in range",
                         log_type |-> log_type,
                         agenda_id |-> uuid_to_string(agenda_id) ] }
  /\ uuid' = uuid + 1
  /\ last' = [op |-> "insert_log", arg |-> [log_type |-> log_type, agenda_id |-> agenda_id],
              rows |-> 1, ret |-> Ok(<<>>)]
  /\ UNCHANGED <<agenda, now>>

\* -------------------------------------------------------------------- cli
AgendaAmountMin == 1
AgendaAmountMax == 5
AgendaAmounts == {0, 1, 3, 5, 6}

\* What a run of the binary leaves behind: its exit code and the lines it
\* printed, each line the format string of its println! and the arguments.
Line(text, args) == [text |-> text, args |-> args]

Exit(code, stdout) == [exit |-> code, stdout |-> stdout]

Ran(cmd, arg, result) == [op |-> cmd, arg |-> arg, rows |-> 0, ret |-> result]

Add(agenda_title, terminate_at) ==
  /\ last' = Ran("Add", [agenda_title |-> agenda_title, terminate_at |-> terminate_at],
           Exit(0, << Line("add agenda {}, terminate at: {}", <<agenda_title, terminate_at>>) >>))
  /\ UNCHANGED <<agenda, log, now, uuid>>

PutOff(slot, content) ==
  /\ last' = Ran("PutOff", [slot |-> slot, content |-> content],
           IF content.some
           THEN Exit(0, << Line("put off agenda {}, content: {}", <<slot, content.val>>) >>)
           ELSE Exit(0, << Line("put off agenda {}", <<slot>>) >>))
  /\ UNCHANGED <<agenda, log, now, uuid>>

\* clap rejects an agenda_amount outside range(1..=5) before main's match runs.
Status(agenda_amount) ==
  /\ last' = Ran("Status", [agenda_amount |-> agenda_amount],
           IF agenda_amount >= AgendaAmountMin /\ agenda_amount <= AgendaAmountMax
           THEN Exit(0, << Line("status of first {} agendas", <<agenda_amount>>) >>)
           ELSE Exit(2, <<>>))
  /\ UNCHANGED <<agenda, log, now, uuid>>

\* The command writes the status of the agenda it names, and writes Ongoing.
Terminate_reopen(slot, content) ==
  /\ agenda' = UpdateAgendaTable(agenda, slot,
                 [title |-> None, agenda_status |-> Some("Ongoing"), terminate_at |-> None])
  /\ last' = Ran("Terminate", [slot |-> slot, content |-> content],
                 Exit(0, << Line("terminate agenda {}", <<slot>>) >>))
  /\ UNCHANGED <<log, now, uuid>>

Terminate(slot, content) ==
  /\ last' = Ran("Terminate", [slot |-> slot, content |-> content],
           IF content.some
           THEN Exit(0, << Line("terminate agenda {}, content: {}", <<slot, content.val>>) >>)
           ELSE Exit(0, << Line("terminate agenda {}", <<slot>>) >>))
  /\ UNCHANGED <<agenda, log, now, uuid>>

Shelve(agenda_title) ==
  /\ last' = Ran("Shelve", [agenda_title |-> agenda_title],
           Exit(0, << Line("shelve agenda {}", <<agenda_title>>) >>))
  /\ UNCHANGED <<agenda, log, now, uuid>>

History ==
  /\ last' = Ran("History", <<>>, Exit(0, << Line("show history of agendas and logs", <<>>) >>))
  /\ UNCHANGED <<agenda, log, now, uuid>>

NoCommand(slot, log_content) ==
  /\ last' = Ran("NoCommand", [slot |-> slot, log_content |-> log_content],
           IF log_content.some
           THEN Exit(0, << Line("saved in agenda {}, log content: {}", <<slot, log_content.val>>) >>)
           ELSE Exit(0, << Line("No command provided and log content is empty. Please provide a command or log content.", <<>>) >>))
  /\ UNCHANGED <<agenda, log, now, uuid>>

main ==
  \/ \E t \in Titles, at \in TerminateAtArgs : Add(t, at)
  \/ \E s \in Slots, c \in Option(Contents) : PutOff(s, c)
  \/ \E n \in AgendaAmounts : Status(n)
  \/ \E s \in Slots, c \in Option(Contents) : Terminate(s, c)
  \/ \E t \in Titles : Shelve(t)
  \/ History
  \/ \E s \in Slots, c \in Option(Contents) : NoCommand(s, c)

\* ---------------------------------------------------------- specification
Init ==
  /\ agenda = {}
  /\ log = {}
  /\ now = 0
  /\ uuid = 0
  /\ last = [op |-> "init", arg |-> <<>>, rows |-> 0, ret |-> Ok(<<>>)]

\* A fixed agenda of each status, for the runs that follow the log table.
AgendaSamples ==
  { [title |-> "a", agenda_status |-> "Ongoing", terminate_at |-> 4],
    [title |-> "b", agenda_status |-> "Stored", terminate_at |-> 1] }

\* The agenda repository, over stores whose logs are notes.
NextAgenda ==
  \/ \E a \in AgendaCreate : create_agenda(a)
  \/ \E id \in Uuids : delete_agenda_by_id(id)
  \/ \E id \in Uuids, u \in AgendaUpdate : update_agenda(id, u)
  \/ \E id \in Uuids : get_agenda_by_id(id)
  \/ \E l \in NoteCreate : uuid < MaxUuid /\ create_log(l)

\* The queries of the agenda repository.
NextQuery ==
  \/ \E a \in AgendaCreate : create_agenda(a)
  \/ \E id \in Uuids : delete_agenda_by_id(id)
  \/ \E id \in Uuids, u \in AgendaUpdate : update_agenda(id, u)
  \/ \E t \in QueryTitles : get_agendas_by_title(t)
  \/ \E s \in Option(StatusArgs) : get_agendas_by_status(s)
  \/ \E s \in Option(StatusArgs) : count_agendas_by_status(s)
  \/ \E s, e \in RangeTimestamps : get_agendas_by_terminate_time_range(s, e)

\* The log repository.
NextLog ==
  \/ \E a \in AgendaSamples : create_agenda(a)
  \/ \E id \in Uuids : delete_agenda_by_id(id)
  \/ \E l \in LogCreate : create_log(l)
  \/ \E id \in LogUuids : delete_log(id)
  \/ \E id \in Uuids : get_logs_by_agenda_id(id)
  \/ \E s, e \in RangeTimestamps : get_logs_by_time_range(s, e)

\* Both repositories and the commands, over the lifetime of agendas and logs:
\* an update of each kind, notes as logs, one command line of each command.
LifetimeUpdates ==
  { [title |-> Some("b"), agenda_status |-> None, terminate_at |-> None],
    [title |-> None, agenda_status |-> Some("Terminated"), terminate_at |-> Some(5)],
    [title |-> None, agenda_status |-> Some("Ongoing"), terminate_at |-> None] }

NextLifetime ==
  \/ \E a \in AgendaSamples : create_agenda(a)
  \/ \E id \in Uuids, u \in LifetimeUpdates : update_agenda(id, u)
  \/ \E id \in Uuids : delete_agenda_by_id(id)
  \/ \E l \in NoteCreate : create_log(l)
  \/ \E id \in LogUuids : delete_log(id)
  \/ \E id \in Uuids : get_logs_by_agenda_id(id)
  \/ \E s \in RangeTimestamps : get_logs_by_time_range(s, 4)
  \/ Add("a", "2030-01-01T00:00:00Z")
  \/ Shelve("a")
  \/ \E s \in Slots : PutOff(s, None)
  \/ \E s \in Slots : Terminate(s, None)
  \/ \E s \in Slots : NoCommand(s, Some("note"))
  \/ Status(1)
  \/ History

\* Every read of both repositories, over tables written through the
\* repositories and by raw SQL: an agenda of each status, an update to each
\* status, a log of each type.
StatusSamples ==
  { [title |-> "a", agenda_status |-> s, terminate_at |-> 4] : s \in AgendaStatus }

StatusUpdates ==
  { [title |-> None, agenda_status |-> Some(s), terminate_at |-> None] : s \in AgendaStatus }

NextRead ==
  \/ \E a \in StatusSamples : create_agenda(a)
  \/ \E id \in Uuids : insert_agenda(id)
  \/ \E id \in Uuids, u \in StatusUpdates : update_agenda(id, u)
  \/ \E l \in LogCreate : l.agenda_id = 1 /\ uuid < MaxUuid /\ create_log(l)
  \/ \E t \in RawLogTypes : uuid < MaxUuid /\ insert_log(t, 1)
  \/ \E id \in Uuids : get_agenda_by_id(id)
  \/ get_agendas_by_title("a")
  \/ \E s \in {None, Some("ongoing"), Some("active")} : get_agendas_by_status(s)
  \/ \E s \in {None, Some("ongoing"), Some("active")} : count_agendas_by_status(s)
  \/ get_agendas_by_terminate_time_range(0, 4)
  \/ get_logs_by_agenda_id(1)
  \/ get_logs_by_time_range(0, 4)

NextCli ==
  \/ \E a \in AgendaCreate : create_agenda(a)
  \/ \E l \in LogCreate : uuid < MaxUuid /\ create_log(l)
  \/ main

Next ==
  \/ \E a \in AgendaCreate : create_agenda(a)
  \/ \E id \in Uuids : delete_agenda_by_id(id)
  \/ \E id \in Uuids, u \in AgendaUpdate : update_agenda(id, u)
  \/ \E id \in Uuids : get_agenda_by_id(id)
  \/ \E t \in QueryTitles : get_agendas_by_title(t)
  \/ \E s \in Option(StatusArgs) : get_agendas_by_status(s)
  \/ \E s \in Option(StatusArgs) : count_agendas_by_status(s)
  \/ \E s, e \in RangeTimestamps : get_agendas_by_terminate_time_range(s, e)
  \/ \E l \in LogCreate : uuid < MaxUuid /\ create_log(l)
  \/ \E id \in Uuids : delete_log(id)
  \/ \E id \in Uuids : get_logs_by_agenda_id(id)
  \/ \E s, e \in RangeTimestamps : get_logs_by_time_range(s, e)
  \/ main

Spec == Init /\ [][Next]_vars

SpecAgenda == Init /\ [][NextAgenda]_vars

SpecCli == Init /\ [][NextCli]_vars

SpecQuery == Init /\ [][NextQuery]_vars

SpecLog == Init /\ [][NextLog]_vars

SpecLifetime == Init /\ [][NextLifetime]_vars

SpecRead == Init /\ [][NextRead]_vars

\* ------------------------------------------------------- slot resolution
\* Section 4.3 of the specification: slot k is the k-th Ongoing agenda in the
\* order of terminate_at, then initiate_at, then id.
OngoingRows(table) == { r \in table : r.agenda_status = "ongoing" }

SlotBefore(r1, r2) ==
  \/ r1.terminate_at < r2.terminate_at
  \/ r1.terminate_at = r2.terminate_at /\ r1.initiate_at < r2.initiate_at
  \/ /\ r1.terminate_at = r2.terminate_at
     /\ r1.initiate_at = r2.initiate_at
     /\ parse_str(r1.id) < parse_str(r2.id)

SlotList(table) ==
  LET O == OngoingRows(table)
      n == Cardinality(O)
  IN  CHOOSE s \in [1..n -> O] :
        \A i, j \in 1..n : i < j => SlotBefore(s[i], s[j])

TransitionCommands == {"Add", "Shelve", "PutOff", "Terminate"}

LifecycleCommands == {"Add", "Shelve", "PutOff", "Terminate", "NoCommand", "Status"}

TransitionLogType(cmd) ==
  CASE cmd = "Add" -> "activate"
    [] cmd = "Shelve" -> "activate"
    [] cmd = "PutOff" -> "put_off"
    [] cmd = "Terminate" -> "terminate"

\* Section 4.3 of the specification: Add takes a deadline that parses as a
\* timestamp; the epoch is a deadline in the past.
ParseTimestamp(s) ==
  CASE s = "2030-01-01T00:00:00Z" -> Some(4)
    [] s = "1970-01-01T00:00:00Z" -> Some(0)
    [] OTHER -> None

\* The n of Status brought into 1..=5.
ClampAmount(n) ==
  IF n < AgendaAmountMin THEN AgendaAmountMin
  ELSE IF n > AgendaAmountMax THEN AgendaAmountMax ELSE n

NoDuplicateStored(table) ==
  \A r1, r2 \in table :
    (r1.agenda_status = "stored" /\ r2.agenda_status = "stored" /\ r1.title = r2.title)
      => r1 = r2

\* The agendas a run displayed: every printed line other than the header of
\* the status command.
ShownAgendas(stdout) ==
  SelectSeq(stdout, LAMBDA l : l.text # "status of first {} agendas")

Present(table, id) == SelectAgendaById(table, id) # Ok(None)

\* The items of a returned Vec.
Elements(vec) == { vec[i] : i \in 1..Len(vec) }

\* ----------------------------------------------------------------- claims

\* C1: every transition command (Add, Shelve, PutOff, Terminate) that succeeds
\* adds exactly one log row, of the type of the transition (activate, put_off,
\* terminate), for the affected agenda (the one created, or the one in the
\* slot); no other log changes.
C1_TransitionLogPairing ==
  [][ (last'.op \in TransitionCommands /\ last'.ret.exit = 0) =>
        \E l \in log' :
          /\ l \notin log
          /\ log' = log \cup {l}
          /\ l.log_type = TransitionLogType(last'.op)
          /\ IF last'.op \in {"Add", "Shelve"}
             THEN \E r \in agenda' : r \notin agenda /\ r.id = l.agenda_id
             ELSE /\ last'.arg.slot <= Cardinality(OngoingRows(agenda))
                  /\ l.agenda_id = SlotList(agenda)[last'.arg.slot].id ]_vars

\* C2: Terminate on an agenda that is already Terminated (the argument read as
\* the AGENDA_ID the command line calls it) fails with InvalidTransitionError
\* and leaves the agenda table and the log table as they were.
C2_NoDoubleTermination ==
  [][ ( /\ last'.op = "Terminate"
        /\ \E r \in agenda :
             r.id = uuid_to_string(last'.arg.slot) /\ r.agenda_status = "terminated" ) =>
        /\ last'.ret.exit # 0
        /\ agenda' = agenda
        /\ log' = log ]_vars

\* C3: no lifecycle command (Add, Shelve, PutOff, Terminate, AppendNote,
\* Status) takes an agenda out of Terminated: an agenda that is Terminated
\* before the command and still exists after it is still Terminated.
C3_TerminatedIsTerminal ==
  [][ last'.op \in LifecycleCommands =>
        \A r \in agenda, r2 \in agenda' :
          (r.agenda_status = "terminated" /\ r2.id = r.id) =>
            r2.agenda_status = "terminated" ]_vars

\* A lifecycle command has run on a store holding a Terminated agenda and an
\* agenda in another status.
C3_Witness ==
  /\ last.op \in {"PutOff", "Terminate"}
  /\ \E r \in agenda : r.agenda_status = "terminated"
  /\ \E r \in agenda : r.agenda_status = "ongoing"

\* C4: Status(n) shows the first min(n, N) Ongoing agendas in slot order
\* (terminate_at, then initiate_at, then id), and PutOff on an occupied slot
\* moves the agenda's terminate_at strictly later, so that the next slot list
\* is re-derived from the new value.
C4_SlotOrder ==
  [][ /\ (last'.op = "Status" /\ last'.ret.exit = 0) =>
           LET slots == SlotList(agenda')
               k == IF last'.arg.agenda_amount < Len(slots)
                    THEN last'.arg.agenda_amount ELSE Len(slots)
               shown == ShownAgendas(last'.ret.stdout)
           IN  /\ Len(shown) = k
               /\ \A i \in 1..k : shown[i].args[1] = slots[i].id
      /\ (last'.op = "PutOff" /\ last'.arg.slot <= Cardinality(OngoingRows(agenda))) =>
           LET target == SlotList(agenda)[last'.arg.slot]
           IN  \E r \in OngoingRows(agenda') :
                 r.id = target.id /\ r.terminate_at > target.terminate_at ]_vars

\* C5: in every observable state each agenda has a log and each log names an
\* agenda that exists.
C5_AtomicPairing ==
  /\ \A r \in agenda : \E l \in log : l.agenda_id = r.id
  /\ \A l \in log : \E r \in agenda : r.id = l.agenda_id

\* C6: right after create_agenda(a) returned id, get_agenda_by_id(id) returns
\* the agenda with that id, with a's title and status, a's terminate_at to the
\* millisecond, and an initiate_at between the clock readings before and after
\* the call.
C6_RoundTrip ==
  last.op = "create_agenda" =>
    LET a == last.arg.agenda
        got == SelectAgendaById(agenda, last.ret.val)
    IN  /\ last.ret.ok
        /\ got.ok
        /\ got.val.some
        /\ got.val.val.id = last.ret.val
        /\ got.val.val.title = a.title
        /\ got.val.val.agenda_status = a.agenda_status
        /\ as_millisecond(got.val.val.terminate_at) = as_millisecond(a.terminate_at)
        /\ as_millisecond(last.arg.start) <= as_millisecond(got.val.val.initiate_at)
        /\ as_millisecond(got.val.val.initiate_at) <= as_millisecond(now)

\* A Terminated agenda whose terminate_at has a sub-millisecond part was
\* created as the second agenda while the clock moved on.
C6_Witness ==
  /\ last.op = "create_agenda"
  /\ last.arg.agenda.agenda_status = "Terminated"
  /\ from_millisecond(as_millisecond(last.arg.agenda.terminate_at)) # last.arg.agenda.terminate_at
  /\ as_millisecond(last.arg.agenda.terminate_at) # as_millisecond(now)
  /\ now > last.arg.start
  /\ Cardinality(agenda) = 2

\* C7: delete_agenda_by_id(x) returns Ok; afterwards x is absent and every
\* other agenda is as before; when x was absent the two tables are unchanged.
C7_DeleteAgenda ==
  [][ last'.op = "delete_agenda_by_id" =>
        LET x == last'.arg.id
        IN  /\ last'.ret.ok
            /\ SelectAgendaById(agenda', x) = Ok(None)
            /\ \A y \in Uuids \ {x} : SelectAgendaById(agenda', y) = SelectAgendaById(agenda, y)
            /\ Cardinality(agenda') = Cardinality(agenda) - last'.rows
            /\ ~Present(agenda, x) => (agenda' = agenda /\ log' = log) ]_vars

\* An agenda that was present has been deleted and another agenda remains.
C7_Witness ==
  /\ last.op = "delete_agenda_by_id"
  /\ last.rows = 1
  /\ ~Present(agenda, last.arg.id)
  /\ agenda # {}

\* C8: update_agenda(x, u) for an absent x returns Ok, creates no row for x
\* and leaves both tables unchanged.
C8_UpdateAbsent ==
  [][ (last'.op = "update_agenda" /\ ~Present(agenda, last'.arg.id)) =>
        /\ last'.ret.ok
        /\ ~Present(agenda', last'.arg.id)
        /\ agenda' = agenda
        /\ log' = log ]_vars

\* A non-empty update of an absent id has run on a store with an agenda and a
\* log.
C8_Witness ==
  /\ last.op = "update_agenda"
  /\ ~UpdateArgsEmpty(last.arg.update)
  /\ last.rows = 0
  /\ ~Present(agenda, last.arg.id)
  /\ agenda # {}
  /\ log # {}

\* C9 as stated: update_agenda on an existing agenda sets each field that is
\* Some in u to the given value, terminate_at included, and keeps the others.
C9_UpdateSetsGivenValues ==
  [][ last'.op = "update_agenda" =>
        \A ro \in agenda, rn \in agenda' :
          (ro.id = uuid_to_string(last'.arg.id) /\ rn.id = ro.id) =>
            LET u == last'.arg.update
                old == DbAgendaToAgenda(ro)
                new == DbAgendaToAgenda(rn)
            IN  /\ new.title = IF u.title.some THEN u.title.val ELSE old.title
                /\ new.agenda_status =
                     IF u.agenda_status.some THEN u.agenda_status.val ELSE old.agenda_status
                /\ new.terminate_at =
                     IF u.terminate_at.some THEN u.terminate_at.val ELSE old.terminate_at ]_vars

\* C9 amended: update_agenda on an existing agenda sets title and status to
\* the given values and terminate_at to the given value truncated to whole
\* milliseconds, for the fields that are Some in u; the fields that are None,
\* id and initiate_at keep their values; no other agenda and no log changes.
C9_UpdateFrame ==
  [][ last'.op = "update_agenda" =>
        \A ro \in agenda :
          ro.id = uuid_to_string(last'.arg.id) =>
            /\ last'.ret.ok
            /\ log' = log
            /\ \E rn \in agenda' :
                 LET u == last'.arg.update
                     old == DbAgendaToAgenda(ro)
                     new == DbAgendaToAgenda(rn)
                 IN  /\ agenda' \ {rn} = agenda \ {ro}
                     /\ new.id = old.id
                     /\ new.initiate_at = old.initiate_at
                     /\ new.title = IF u.title.some THEN u.title.val ELSE old.title
                     /\ new.agenda_status =
                          IF u.agenda_status.some THEN u.agenda_status.val
                          ELSE old.agenda_status
                     /\ new.terminate_at =
                          IF u.terminate_at.some
                          THEN from_millisecond(as_millisecond(u.terminate_at.val))
                          ELSE old.terminate_at ]_vars

\* An update that sets the status and the terminate_at but not the title has
\* run on one of two agendas.
C9_Witness ==
  /\ last.op = "update_agenda"
  /\ last.rows = 1
  /\ ~last.arg.update.title.some
  /\ last.arg.update.agenda_status.some
  /\ last.arg.update.terminate_at.some
  /\ Cardinality(agenda) = 2
  /\ \E r \in agenda : r.id = uuid_to_string(last.arg.id) /\ r.title = "a"

\* C10: update_agenda with title, agenda_status and terminate_at all None
\* returns Ok and leaves both tables unchanged, whether or not the id exists.
C10_EmptyUpdate ==
  [][ (last'.op = "update_agenda" /\ UpdateArgsEmpty(last'.arg.update)) =>
        /\ last'.ret.ok
        /\ agenda' = agenda
        /\ log' = log ]_vars

\* An empty update of an existing agenda has run.
C10_Witness ==
  /\ last.op = "update_agenda"
  /\ UpdateArgsEmpty(last.arg.update)
  /\ Present(agenda, last.arg.id)
  /\ last.ret.ok

\* C11: get_agenda_by_id(x) returns Ok(None) exactly when no row has id x, and
\* otherwise Ok(Some(agenda)) with the values the row holds now; right after an
\* update_agenda that matched a row, it returns the updated title, status and
\* (millisecond) terminate_at.
C11_GetAgendaById ==
  /\ last.op = "get_agenda_by_id" =>
        LET idt == uuid_to_string(last.arg.id)
        IN  /\ last.ret.ok
            /\ (last.ret.val = None) <=> (\A r \in agenda : r.id # idt)
            /\ \A r \in agenda :
                 r.id = idt =>
                   /\ last.ret.val.some
                   /\ last.ret.val.val.id = last.arg.id
                   /\ last.ret.val.val.title = r.title
                   /\ AgendaStatus_to_string(last.ret.val.val.agenda_status) = r.agenda_status
                   /\ as_millisecond(last.ret.val.val.initiate_at) = r.initiate_at
                   /\ as_millisecond(last.ret.val.val.terminate_at) = r.terminate_at
  /\ (last.op = "update_agenda" /\ last.rows = 1) =>
        LET u == last.arg.update
            got == SelectAgendaById(agenda, last.arg.id)
        IN  /\ got.ok
            /\ got.val.some
            /\ u.title.some => got.val.val.title = u.title.val
            /\ u.agenda_status.some => got.val.val.agenda_status = u.agenda_status.val
            /\ u.terminate_at.some =>
                 as_millisecond(got.val.val.terminate_at) = as_millisecond(u.terminate_at.val)

\* An absent id has been looked up in a store that holds another agenda.
C11_Witness ==
  /\ last.op = "get_agenda_by_id"
  /\ last.ret = Ok(None)
  /\ \E r \in agenda : r.agenda_status = "terminated"

\* C12: delete_agenda_by_id succeeds and does not cascade: every log of the
\* deleted agenda is still in the log table, unchanged, and is still returned
\* by get_logs_by_agenda_id.
C12_DeleteKeepsLogs ==
  [][ last'.op = "delete_agenda_by_id" =>
        /\ last'.ret.ok
        /\ \A l \in log :
             l.agenda_id = uuid_to_string(last'.arg.id) =>
               /\ l \in log'
               /\ SelectLogsByAgendaId(log', last'.arg.id).ok
               /\ DbLogToLog(l) \in Elements(SelectLogsByAgendaId(log', last'.arg.id).val)
        /\ SelectLogsByAgendaId(log', last'.arg.id) = SelectLogsByAgendaId(log, last'.arg.id) ]_vars

\* An agenda that had a log has been deleted.
C12_Witness ==
  /\ last.op = "delete_agenda_by_id"
  /\ last.rows = 1
  /\ \E l \in log : l.agenda_id = uuid_to_string(last.arg.id)

\* C13: create_log for an agenda_id that names no agenda returns an error and
\* writes no row; whatever the operation, a log row that appears names an
\* agenda that exists when it is written.
C13_CreateLogForeignKey ==
  [][ /\ ( /\ last'.op = "create_log"
           /\ \A r \in agenda : r.id # uuid_to_string(last'.arg.new_log.agenda_id) ) =>
             /\ ~last'.ret.ok
             /\ log' = log
      /\ \A l \in log' \ log : \E r \in agenda : r.id = l.agenda_id ]_vars

\* A create_log has failed on a store that holds an agenda and a log.
C13_Witness ==
  /\ last.op = "create_log"
  /\ ~last.ret.ok
  /\ agenda # {}
  /\ log # {}

\* C14: in every state get_agendas_by_status(None) returns every agenda of the
\* store exactly once; each of the filters "stored", "ongoing", "terminated"
\* returns exactly the agendas of that status; the three results are disjoint
\* and their union is the unfiltered result.
C14_StatusFilterComplete ==
  LET all == SelectAgendasByStatus(agenda, None)
      by(s) == SelectAgendasByStatus(agenda, Some(s))
  IN  /\ all.ok
      /\ Len(all.val) = Cardinality(agenda)
      /\ \A r \in agenda : \E i \in 1..Len(all.val) : all.val[i].id = parse_str(r.id)
      /\ \A i, j \in 1..Len(all.val) : all.val[i].id = all.val[j].id => i = j
      /\ \A s \in {"stored", "ongoing", "terminated"} :
           /\ by(s).ok
           /\ Len(by(s).val) = Cardinality(Elements(by(s).val))
           /\ Elements(by(s).val) =
                { a \in Elements(all.val) : AgendaStatus_to_string(a.agenda_status) = s }
      /\ Elements(all.val) =
           Elements(by("stored").val) \cup Elements(by("ongoing").val)
             \cup Elements(by("terminated").val)
      /\ Len(all.val) = Len(by("stored").val) + Len(by("ongoing").val) + Len(by("terminated").val)
      /\ last.op = "get_agendas_by_status" =>
           IF last.arg.status.some
           THEN last.ret = by(last.arg.status.val)
           ELSE last.ret = all

\* The agendas of one status have been fetched from a store that holds an
\* agenda of that status and an agenda of another.
C14_Witness ==
  /\ last.op = "get_agendas_by_status"
  /\ last.arg.status = Some("ongoing")
  /\ Len(last.ret.val) = 1
  /\ Cardinality(agenda) = 2

\* C15: in every state the unfiltered count is the sum of the counts of
\* "stored", "ongoing" and "terminated".
C15_CountSum ==
  /\ CountAgendasByStatus(agenda, None).ok
  /\ CountAgendasByStatus(agenda, None).val =
       CountAgendasByStatus(agenda, Some("stored")).val
         + CountAgendasByStatus(agenda, Some("ongoing")).val
         + CountAgendasByStatus(agenda, Some("terminated")).val
  /\ (last.op = "count_agendas_by_status" /\ ~last.arg.status.some) =>
       last.ret.val = Cardinality(agenda)

\* The agendas of a store with two agendas of different status have been
\* counted without a filter.
C15_Witness ==
  /\ last.op = "count_agendas_by_status"
  /\ last.arg.status = None
  /\ last.ret.val = 2
  /\ \E r1, r2 \in agenda : r1.agenda_status # r2.agenda_status

\* C16 as stated: get_agendas_by_terminate_time_range(start, end) returns
\* exactly the agendas whose terminate_at t satisfies start <= t <= end.
C16_RangeExact ==
  last.op = "get_agendas_by_terminate_time_range" =>
    /\ last.ret.ok
    /\ Elements(last.ret.val) =
         { DbAgendaToAgenda(r) : r \in
             { q \in agenda : /\ last.arg.start <= DbAgendaToAgenda(q).terminate_at
                              /\ DbAgendaToAgenda(q).terminate_at <= last.arg.end } }

\* C16 amended: the result holds exactly the agendas, of any status, whose
\* terminate_at in whole milliseconds lies between start and end truncated to
\* whole milliseconds, both bounds included, each agenda once; it is empty
\* when there is none.
C16_RangeMillisecond ==
  last.op = "get_agendas_by_terminate_time_range" =>
    LET lo == as_millisecond(last.arg.start)
        hi == as_millisecond(last.arg.end)
    IN  /\ last.ret.ok
        /\ \A r \in agenda :
             (lo <= r.terminate_at /\ r.terminate_at <= hi)
               <=> \E i \in 1..Len(last.ret.val) : last.ret.val[i] = DbAgendaToAgenda(r)
        /\ \A i \in 1..Len(last.ret.val) :
             /\ lo <= as_millisecond(last.ret.val[i].terminate_at)
             /\ as_millisecond(last.ret.val[i].terminate_at) <= hi
             /\ \E r \in agenda : r.id = uuid_to_string(last.ret.val[i].id)
        /\ \A i, j \in 1..Len(last.ret.val) :
             last.ret.val[i].id = last.ret.val[j].id => i = j

\* A range whose end is the millisecond of one agenda's terminate_at has been
\* queried on a store that holds a later agenda too: one is in, one is out.
C16_Witness ==
  /\ last.op = "get_agendas_by_terminate_time_range"
  /\ Cardinality(agenda) = 2
  /\ Len(last.ret.val) = 1
  /\ as_millisecond(last.ret.val[1].terminate_at) = as_millisecond(last.arg.end)
  /\ as_millisecond(last.ret.val[1].terminate_at) = as_millisecond(last.arg.start)

\* C17 as stated: get_logs_by_time_range(start, end) returns exactly the logs
\* whose create_at c satisfies start <= c <= end.
C17_LogRangeExact ==
  last.op = "get_logs_by_time_range" =>
    /\ last.ret.ok
    /\ Elements(last.ret.val) =
         { DbLogToLog(r) : r \in
             { q \in log : /\ last.arg.start <= DbLogToLog(q).create_at
                           /\ DbLogToLog(q).create_at <= last.arg.end } }

\* C17 amended: the result holds exactly the logs whose create_at in whole
\* milliseconds lies between start and end truncated to whole milliseconds,
\* both bounds included, each log once; it is empty when there is none.
C17_LogRangeMillisecond ==
  last.op = "get_logs_by_time_range" =>
    LET lo == as_millisecond(last.arg.start)
        hi == as_millisecond(last.arg.end)
    IN  /\ last.ret.ok
        /\ \A r \in log :
             (lo <= r.create_at /\ r.create_at <= hi)
               <=> \E i \in 1..Len(last.ret.val) : last.ret.val[i] = DbLogToLog(r)
        /\ \A i \in 1..Len(last.ret.val) :
             /\ lo <= as_millisecond(last.ret.val[i].create_at)
             /\ as_millisecond(last.ret.val[i].create_at) <= hi
             /\ \E r \in log : r.id = uuid_to_string(last.ret.val[i].id)
        /\ \A i, j \in 1..Len(last.ret.val) :
             last.ret.val[i].id = last.ret.val[j].id => i = j

\* A range that starts at the millisecond of one log has been queried on a
\* store that holds a later log too: one is in, one is out.
C17_Witness ==
  /\ last.op = "get_logs_by_time_range"
  /\ Cardinality(log) = 2
  /\ Len(last.ret.val) = 1
  /\ as_millisecond(last.ret.val[1].create_at) = as_millisecond(last.arg.start)

\* C18: create_agenda succeeds whether or not its title is in use and gives
\* the new agenda an id no other agenda has; get_agendas_by_title(t) returns
\* exactly the agendas whose title is t, of any status, each once, and an
\* empty result when there is none.
C18_DuplicateTitles ==
  /\ last.op = "create_agenda" =>
       /\ last.ret.ok
       /\ Cardinality({ r \in agenda : r.id = uuid_to_string(last.ret.val) }) = 1
       /\ \E r \in agenda :
            r.id = uuid_to_string(last.ret.val) /\ r.title = last.arg.agenda.title
  /\ last.op = "get_agendas_by_title" =>
       /\ last.ret.ok
       /\ Len(last.ret.val) = Cardinality({ r \in agenda : r.title = last.arg.title })
       /\ \A r \in agenda :
            r.title = last.arg.title
              <=> \E i \in 1..Len(last.ret.val) : last.ret.val[i] = DbAgendaToAgenda(r)
       /\ \A i \in 1..Len(last.ret.val) : last.ret.val[i].title = last.arg.title

\* Two agendas of different status share a title and both have been returned
\* for it.
C18_Witness ==
  /\ last.op = "get_agendas_by_title"
  /\ Len(last.ret.val) = 2
  /\ last.ret.val[1].id # last.ret.val[2].id
  /\ last.ret.val[1].agenda_status # last.ret.val[2].agenda_status

\* C19: create_log on an existing agenda returns a fresh id and adds exactly
\* one log row: its id is the returned id, its agenda_id, content and log_type
\* are those of the LogCreate, its create_at is a clock reading in whole
\* milliseconds between the readings before and after the call; the other
\* logs and the agendas are as before.
C19_CreateLog ==
  [][ ( /\ last'.op = "create_log"
        /\ \E r \in agenda : r.id = uuid_to_string(last'.arg.new_log.agenda_id) ) =>
        /\ last'.ret.ok
        /\ \A q \in agenda \cup log : q.id # uuid_to_string(last'.ret.val)
        /\ agenda' = agenda
        /\ \E l \in log' :
             /\ l \notin log
             /\ log' = log \cup {l}
             /\ DbLogToLog(l).id = last'.ret.val
             /\ DbLogToLog(l).agenda_id = last'.arg.new_log.agenda_id
             /\ DbLogToLog(l).content = last'.arg.new_log.content
             /\ DbLogToLog(l).log_type = last'.arg.new_log.log_type
             /\ as_millisecond(last'.arg.start) <= l.create_at
             /\ l.create_at <= as_millisecond(now') ]_vars

\* A second log has been written for an agenda while the clock moved on.
C19_Witness ==
  /\ last.op = "create_log"
  /\ last.ret.ok
  /\ Cardinality(log) = 2
  /\ now > last.arg.start
  /\ last.arg.new_log.log_type = "PutOff"

\* C20: get_logs_by_agenda_id(a) returns exactly the logs whose agenda_id is
\* a, each once: every log of a that is in the table, no log of another
\* agenda, and an empty result when a has no log.
C20_LogsByAgendaId ==
  last.op = "get_logs_by_agenda_id" =>
    /\ last.ret.ok
    /\ Len(last.ret.val) =
         Cardinality({ r \in log : r.agenda_id = uuid_to_string(last.arg.agenda_id) })
    /\ \A r \in log :
         r.agenda_id = uuid_to_string(last.arg.agenda_id)
           <=> \E i \in 1..Len(last.ret.val) : last.ret.val[i] = DbLogToLog(r)
    /\ \A i \in 1..Len(last.ret.val) : last.ret.val[i].agenda_id = last.arg.agenda_id

\* The logs of an agenda that has none have been fetched while another agenda
\* has a log.
C20_Witness ==
  /\ last.op = "get_logs_by_agenda_id"
  /\ last.ret = Ok(<<>>)
  /\ \E r \in agenda : r.id = uuid_to_string(last.arg.agenda_id)
  /\ log # {}

\* C21: delete_log(x) returns Ok; when a log has id x exactly that log is
\* removed, when none has the log table is unchanged; in both cases every
\* agenda and every other log is as before.
C21_DeleteLog ==
  [][ last'.op = "delete_log" =>
        LET idt == uuid_to_string(last'.arg.id)
        IN  /\ last'.ret.ok
            /\ agenda' = agenda
            /\ log' = { l \in log : l.id # idt }
            /\ \A l \in log' : l.id # idt
            /\ (\A l \in log : l.id # idt) => log' = log
            /\ Cardinality(log') = Cardinality(log) - last'.rows
            /\ \A l \in log : l.id # idt => l \in log' ]_vars

\* One of the two logs of an agenda has been deleted; the other log and the
\* agenda are in the store.
C21_Witness ==
  /\ last.op = "delete_log"
  /\ last.rows = 1
  /\ \E l \in log, r \in agenda : l.agenda_id = r.id
  /\ \A l \in log : l.id # uuid_to_string(last.arg.id)

\* C22: Add with a deadline that parses, in the past or not, creates exactly
\* one agenda: its title is the given title, its status Ongoing, its
\* terminate_at the given deadline, and it is in the slot list.
C22_AddCreatesOngoing ==
  [][ (last'.op = "Add" /\ ParseTimestamp(last'.arg.terminate_at).some) =>
        /\ last'.ret.exit = 0
        /\ \E r \in agenda' :
             /\ r \notin agenda
             /\ agenda' = agenda \cup {r}
             /\ r.title = last'.arg.agenda_title
             /\ r.agenda_status = "ongoing"
             /\ r.terminate_at = as_millisecond(ParseTimestamp(last'.arg.terminate_at).val)
             /\ \E k \in 1..Cardinality(OngoingRows(agenda')) : SlotList(agenda')[k] = r ]_vars

\* C23: Shelve of a title that a Stored agenda already has is rejected or
\* warned about and writes no agenda and no log; no command brings a store
\* without two Stored agendas of one title into a store with two.
C23_NoDuplicatePending ==
  [][ /\ ( /\ last'.op = "Shelve"
           /\ \E r \in agenda :
                r.agenda_status = "stored" /\ r.title = last'.arg.agenda_title ) =>
             /\ \/ last'.ret.exit # 0
                \/ \E i \in 1..Len(last'.ret.stdout) :
                     last'.ret.stdout[i].text # "shelve agenda {}"
             /\ agenda' = agenda
             /\ log' = log
      /\ last'.op \in LifecycleCommands =>
           (NoDuplicateStored(agenda) => NoDuplicateStored(agenda')) ]_vars

\* C24: PutOff and Terminate on a slot beyond the number of Ongoing agendas
\* fail, the failure is reported by the exit status, and both tables are
\* unchanged.
C24_SlotNotFound ==
  [][ ( /\ last'.op \in {"PutOff", "Terminate"}
        /\ last'.arg.slot > Cardinality(OngoingRows(agenda)) ) =>
        /\ last'.ret.exit # 0
        /\ agenda' = agenda
        /\ log' = log ]_vars

\* C25: PutOff on an occupied slot changes only the terminate_at of the
\* agenda in the slot, to a later value, leaves every other agenda as it was
\* and writes one put_off log for that agenda with the given content, empty
\* when none is given.
C25_PutOffFrame ==
  [][ (last'.op = "PutOff" /\ last'.arg.slot <= Cardinality(OngoingRows(agenda))) =>
        LET target == SlotList(agenda)[last'.arg.slot]
        IN  /\ \E rn \in agenda' :
                 /\ agenda' \ {rn} = agenda \ {target}
                 /\ rn = [target EXCEPT !.terminate_at = rn.terminate_at]
                 /\ rn.terminate_at > target.terminate_at
            /\ \E l \in log' :
                 /\ l \notin log
                 /\ log' = log \cup {l}
                 /\ l.log_type = "put_off"
                 /\ l.agenda_id = target.id
                 /\ l.content = IF last'.arg.content.some THEN last'.arg.content.val ELSE "" ]_vars

\* C26: the bare invocation with a text and an occupied slot writes exactly
\* one common_log row for the agenda in the slot, with the text as content,
\* and leaves the agenda table, and so the slot order, unchanged.
C26_AppendNote ==
  [][ ( /\ last'.op = "NoCommand"
        /\ last'.arg.log_content.some
        /\ last'.arg.slot <= Cardinality(OngoingRows(agenda)) ) =>
        /\ agenda' = agenda
        /\ \E l \in log' :
             /\ l \notin log
             /\ log' = log \cup {l}
             /\ l.log_type = "common_log"
             /\ l.agenda_id = SlotList(agenda)[last'.arg.slot].id
             /\ l.content = last'.arg.log_content.val ]_vars

\* C27: Status(n) succeeds for every n, shows the first min(m, N) Ongoing
\* agendas in slot order, where m is n clamped into 1..=5 and N the number of
\* Ongoing agendas, and changes neither table.
C27_StatusReadOnly ==
  [][ last'.op = "Status" =>
        LET slots == SlotList(agenda)
            m == ClampAmount(last'.arg.agenda_amount)
            k == IF m < Len(slots) THEN m ELSE Len(slots)
            shown == ShownAgendas(last'.ret.stdout)
        IN  /\ agenda' = agenda
            /\ log' = log
            /\ last'.ret.exit = 0
            /\ Len(shown) = k
            /\ \A i \in 1..k : shown[i].args[1] = slots[i].id ]_vars

\* C28: the invocation without a subcommand and without a text prints the
\* message that asks for a command or log content, exits with a status other
\* than 0 and changes neither table.
C28_UsageError ==
  [][ (last'.op = "NoCommand" /\ ~last'.arg.log_content.some) =>
        /\ \E i \in 1..Len(last'.ret.stdout) :
             last'.ret.stdout[i].text =
               "No command provided and log content is empty. Please provide a command or log content."
        /\ last'.ret.exit # 0
        /\ agenda' = agenda
        /\ log' = log ]_vars

\* C29: logs are append-only.  No step changes a field of a log that stays in
\* the table; no operation of the log repository other than delete_log, and
\* no command, removes a log; every log of the table is returned with the
\* fields it was written with by get_logs_by_agenda_id for its agenda and by
\* get_logs_by_time_range for a range around its create_at.
C29_LogsAppendOnly ==
  [][ /\ \A l \in log, l2 \in log' : l2.id = l.id => l2 = l
      /\ last'.op \notin {"delete_log", "delete_agenda_by_id"} => log \subseteq log'
      /\ last'.op = "get_logs_by_agenda_id" =>
           \A l \in log :
             l.agenda_id = uuid_to_string(last'.arg.agenda_id) =>
               \E i \in 1..Len(last'.ret.val) : last'.ret.val[i] = DbLogToLog(l)
      /\ last'.op = "get_logs_by_time_range" =>
           \A l \in log :
             ( /\ as_millisecond(last'.arg.start) <= l.create_at
               /\ l.create_at <= as_millisecond(last'.arg.end) ) =>
               \E i \in 1..Len(last'.ret.val) : last'.ret.val[i] = DbLogToLog(l) ]_vars

\* A log has been written for an agenda that already has a log of the same
\* type.
C29_Witness ==
  /\ last.op = "create_log"
  /\ last.ret.ok
  /\ \E l \in log :
       /\ l.id # uuid_to_string(last.ret.val)
       /\ l.agenda_id = uuid_to_string(last.arg.new_log.agenda_id)
       /\ l.log_type = LogType_to_string(last.arg.new_log.log_type)

\* C30: the id and the initiate_at of an agenda never change.  Across every
\* step an agenda that stays in the table keeps its initiate_at, and
\* update_agenda and the commands leave the set of ids as it was.
C30_IdAndInitiateAtImmutable ==
  [][ /\ \A r \in agenda, r2 \in agenda' : r2.id = r.id => r2.initiate_at = r.initiate_at
      /\ last'.op \in ({"update_agenda"} \cup LifecycleCommands) =>
           /\ { r.id : r \in agenda' } = { r.id : r \in agenda }
           /\ Cardinality(agenda') = Cardinality(agenda) ]_vars

\* An update has moved the terminate_at of an agenda whose initiate_at is a
\* later millisecond than the first, next to another agenda.
C30_Witness ==
  /\ last.op = "update_agenda"
  /\ last.rows = 1
  /\ last.arg.update.terminate_at.some
  /\ Cardinality(agenda) = 2
  /\ \E r \in agenda :
       /\ r.id = uuid_to_string(last.arg.id)
       /\ r.initiate_at > 0
       /\ r.initiate_at # r.terminate_at

\* C31: in every reachable state every agenda has initiate_at <= terminate_at,
\* whether terminate_at was given at creation or recorded later by
\* update_agenda.
C31_InitiateBeforeTerminate ==
  \A r \in agenda : r.initiate_at <= r.terminate_at

\* C31, amended: an agenda created with a terminate_at that is not earlier
\* than the clock reading of its creation has initiate_at <= terminate_at, and
\* so has an agenda whose terminate_at an update sets to a value not earlier
\* than its initiate_at; an earlier terminate_at is stored as given.
C31_InitiateBeforeGivenTerminate ==
  [][ /\ (last'.op = "create_agenda" /\ last'.arg.agenda.terminate_at >= now') =>
           \A r \in agenda' :
             r.id = uuid_to_string(last'.ret.val) => r.initiate_at <= r.terminate_at
      /\ (last'.op = "update_agenda" /\ last'.arg.update.terminate_at.some) =>
           \A r \in agenda, r2 \in agenda' :
             ( /\ r.id = uuid_to_string(last'.arg.id)
               /\ r2.id = r.id
               /\ last'.arg.update.terminate_at.val >= from_millisecond(r.initiate_at) ) =>
               r2.initiate_at <= r2.terminate_at ]_vars

\* An agenda has been created at a clock reading of a later millisecond than
\* the first, with a terminate_at that is not earlier than that reading.
C31_Witness ==
  /\ last.op = "create_agenda"
  /\ last.arg.agenda.terminate_at >= now
  /\ \E r \in agenda :
       /\ r.id = uuid_to_string(last.ret.val)
       /\ r.initiate_at > 0
       /\ r.initiate_at <= r.terminate_at

\* C32: agenda ids are unique and never reused.  The id create_agenda returns
\* is later than every id issued so far (uuid counts the ids issued, so every
\* agenda that exists or has existed has an id of at most uuid), the agenda
\* created is stored under that id, no other step brings an id into the
\* table, and no two agendas of the table share an id.
C32_IdsNeverReused ==
  [][ /\ \A r \in agenda : parse_str(r.id) <= uuid
      /\ uuid' >= uuid
      /\ last'.op = "create_agenda" =>
           /\ last'.ret.ok
           /\ last'.ret.val > uuid
           /\ \A r \in agenda : r.id # uuid_to_string(last'.ret.val)
           /\ \E r \in agenda' : r.id = uuid_to_string(last'.ret.val)
      /\ \A r \in agenda' :
           (\A q \in agenda : q.id # r.id) =>
             (last'.op = "create_agenda" /\ r.id = uuid_to_string(last'.ret.val))
      /\ \A r1, r2 \in agenda' : r1.id = r2.id => r1 = r2 ]_vars

\* An agenda has been created under the second id issued, into a table that
\* does not hold the first id any more.
C32_Witness ==
  /\ last.op = "create_agenda"
  /\ last.ret.val = 2
  /\ Cardinality(agenda) = 1
  /\ log = {}

C34_BornStoredOrOngoing ==
  [][ \A r \in agenda' :
        (\A q \in agenda : q.id # r.id) =>
          DbAgendaToAgenda(r).agenda_status \in {"Stored", "Ongoing"} ]_vars

\* C34, amended: every agenda is born by create_agenda, with the status given
\* to create_agenda, which is any of Stored, Ongoing and Terminated.
C34_BornWithGivenStatus ==
  [][ \A r \in agenda' :
        (\A q \in agenda : q.id # r.id) =>
          /\ last'.op = "create_agenda"
          /\ r.id = uuid_to_string(last'.ret.val)
          /\ DbAgendaToAgenda(r).agenda_status = last'.arg.agenda.agenda_status
          /\ last'.arg.agenda.agenda_status \in AgendaStatus ]_vars

\* An agenda has been created Terminated.
C34_Witness ==
  /\ last.op = "create_agenda"
  /\ last.arg.agenda.agenda_status = "Terminated"
  /\ \E r \in agenda :
       r.id = uuid_to_string(last.ret.val) /\ r.agenda_status = "terminated"

\* C36: slots hold Ongoing agendas only: the agenda resolved for each slot k of
\* 1..N is Ongoing; and after Terminate on an occupied slot k succeeds, the
\* agenda terminated is in no slot, there is one slot fewer, and the other
\* Ongoing agendas follow each other as before.
C36_SlotsHoldOngoing ==
  [][ /\ \A k \in 1..Len(SlotList(agenda)) : SlotList(agenda)[k].agenda_status = "ongoing"
      /\ ( /\ last'.op = "Terminate"
           /\ last'.ret.exit = 0
           /\ last'.arg.slot <= Len(SlotList(agenda)) ) =>
           LET before == SlotList(agenda)
               after == SlotList(agenda')
               k == last'.arg.slot
           IN  /\ \A i \in 1..Len(after) : after[i].id # before[k].id
               /\ Len(after) = Len(before) - 1
               /\ \A i \in 1..Len(after) :
                    after[i] = IF i < k THEN before[i] ELSE before[i + 1] ]_vars

\* C37: a read that meets an agenda row whose agenda_status is none of
\* "stored", "ongoing", "terminated", or a log row whose log_type is none of
\* "activate", "put_off", "terminate", "common_log", aborts with the panic of
\* the mapping and changes nothing; a read that returns, returns every entity
\* with the variant its row spells, never a variant of its own choice.
\* Conversely the status written by create_agenda or update_agenda and the log
\* type written by create_log are read back as the variant written.
C37_UnknownVariantAborts ==
  [][ /\ last'.op = "get_agenda_by_id" =>
           \A r \in agenda :
             r.id = uuid_to_string(last'.arg.id) =>
               IF r.agenda_status \in {"stored", "ongoing", "terminated"}
               THEN /\ last'.ret.ok
                    /\ last'.ret.val.some
                    /\ AgendaStatus_to_string(last'.ret.val.val.agenda_status) = r.agenda_status
               ELSE last'.ret = [panic |-> "invalid agenda_status in database"]
      /\ last'.op = "get_agendas_by_status" =>
           \A r \in agenda :
             ( /\ (last'.arg.status.some => r.agenda_status = last'.arg.status.val)
               /\ r.agenda_status \notin {"stored", "ongoing", "terminated"} ) =>
               last'.ret = [panic |-> "invalid agenda_status in database"]
      /\ last'.op \in {"get_agendas_by_status", "get_agendas_by_title",
                        "get_agendas_by_terminate_time_range"} =>
           IF "ok" \in DOMAIN last'.ret
           THEN /\ last'.ret.ok
                /\ \A i \in 1..Len(last'.ret.val) :
                     \E r \in agenda :
                       /\ r.id = uuid_to_string(last'.ret.val[i].id)
                       /\ r.agenda_status = AgendaStatus_to_string(last'.ret.val[i].agenda_status)
           ELSE /\ last'.ret = [panic |-> "invalid agenda_status in database"]
                /\ \E r \in agenda : r.agenda_status \notin {"stored", "ongoing", "terminated"}
      /\ last'.op = "get_logs_by_agenda_id" =>
           \A l \in log :
             ( /\ l.agenda_id = uuid_to_string(last'.arg.agenda_id)
               /\ l.log_type \notin {"activate", "put_off", "terminate", "common_log"} ) =>
               last'.ret = [panic |-> "invalid log type in DB"]
      /\ last'.op \in {"get_logs_by_agenda_id", "get_logs_by_time_range"} =>
           IF "ok" \in DOMAIN last'.ret
           THEN /\ last'.ret.ok
                /\ \A i \in 1..Len(last'.ret.val) :
                     \E l \in log :
                       /\ l.id = uuid_to_string(last'.ret.val[i].id)
                       /\ l.log_type = LogType_to_string(last'.ret.val[i].log_type)
           ELSE /\ last'.ret = [panic |-> "invalid log type in DB"]
                /\ \E l \in log :
                     l.log_type \notin {"activate", "put_off", "terminate", "common_log"}
      /\ (last'.op \in {"get_agenda_by_id", "get_agendas_by_status", "get_agendas_by_title",
                         "get_agendas_by_terminate_time_range", "get_logs_by_agenda_id",
                         "get_logs_by_time_range"} /\ "panic" \in DOMAIN last'.ret) =>
           (agenda' = agenda /\ log' = log)
      /\ last'.op = "create_agenda" =>
           /\ SelectAgendaById(agenda', last'.ret.val).ok
           /\ SelectAgendaById(agenda', last'.ret.val).val.val.agenda_status
                = last'.arg.agenda.agenda_status
      /\ (last'.op = "update_agenda" /\ last'.rows = 1
                                     /\ last'.arg.update.agenda_status.some) =>
           /\ SelectAgendaById(agenda', last'.arg.id).ok
           /\ SelectAgendaById(agenda', last'.arg.id).val.val.agenda_status
                = last'.arg.update.agenda_status.val
      /\ (last'.op = "create_log" /\ last'.ret.ok) =>
           \A l \in log' :
             l.id = uuid_to_string(last'.ret.val) =>
               DbLogToLog(l).log_type = last'.arg.new_log.log_type ]_vars

\* get_agenda_by_id has met the row of status "active" that insert_agenda
\* wrote, and has panicked.
C37_Witness ==
  /\ last.op = "get_agenda_by_id"
  /\ last.ret = [panic |-> "invalid agenda_status in database"]
  /\ \E r \in agenda : r.id = uuid_to_string(last.arg.id) /\ r.agenda_status = "active"
  /\ \E l \in log : l.log_type = "memo"

C39_QueriesReadOnly ==
  [][ last'.op \in {"get_agenda_by_id", "get_agendas_by_title", "get_agendas_by_status",
                     "count_agendas_by_status", "get_agendas_by_terminate_time_range",
                     "get_logs_by_agenda_id", "get_logs_by_time_range"} =>
        /\ agenda' = agenda
        /\ log' = log
        /\ (last.op = last'.op /\ last.arg = last'.arg) => last'.ret = last.ret
        /\ last'.op = "get_agenda_by_id" =>
             SelectAgendaById(agenda', last'.arg.id) = last'.ret
        /\ last'.op = "get_agendas_by_title" =>
             SelectAgendasByTitle(agenda', last'.arg.title) = last'.ret
        /\ last'.op = "get_agendas_by_status" =>
             SelectAgendasByStatus(agenda', last'.arg.status) = last'.ret
        /\ last'.op = "count_agendas_by_status" =>
             CountAgendasByStatus(agenda', last'.arg.status) = last'.ret
        /\ last'.op = "get_agendas_by_terminate_time_range" =>
             SelectAgendasByTerminateTimeRange(agenda', last'.arg.start, last'.arg.end)
               = last'.ret
        /\ last'.op = "get_logs_by_agenda_id" =>
             SelectLogsByAgendaId(log', last'.arg.agenda_id) = last'.ret
        /\ last'.op = "get_logs_by_time_range" =>
             SelectLogsByTimeRange(log', last'.arg.start, last'.arg.end) = last'.ret ]_vars

\* get_logs_by_agenda_id has returned the log of an agenda.
C39_Witness ==
  /\ last.op = "get_logs_by_agenda_id"
  /\ last.ret = SelectLogsByAgendaId(log, last.arg.agenda_id)
  /\ "ok" \in DOMAIN last.ret
  /\ Len(last.ret.val) = 1
  /\ Cardinality(agenda) = 1

====
